---- MODULE Spec2Model ----
(***************************************************************************)
(* lsmovie (src/src/main.rs): the path metadata extractor (extract_id,     *)
(* extract_user_name, MovieEntry::from_path), the per-file handler         *)
(* (process) and the directory walk (visit_dir, main).                     *)
(*                                                                         *)
(* Text is a sequence of characters, each character a one-element token    *)
(* ("a", " ", "[", ...).  NL is the line feed, Nen a multi-byte scalar     *)
(* (U+5E74), BadByte a byte sequence that is not valid UTF-8.  A path is   *)
(* the sequence of its '/'-separated segments.                             *)
(***************************************************************************)
EXTENDS Naturals, Sequences, FiniteSets, TLC

VARIABLES
  input,    \* the argument of the function under call (pure specifications)
  ret,      \* what the call returned; Pending before the call
  fs,       \* the file system: path -> node
  args,     \* env::args().skip(1)
  argi,     \* index of the argument main's loop is at
  stack,    \* the active visit_dir frames, innermost first
  pending,  \* an Err travelling up through the `?` of the frames
  results,  \* what visit_dir returned to main for each argument (discarded)
  calls,    \* the handler invocations, in order: which argument, which path
  extracted,\* the paths MovieEntry::from_path was invoked with, in order
  out       \* every line written, in order: which argument, path, stream, line

vars == <<input, ret, fs, args, argi, stack, pending, results, calls,
          extracted, out>>

----------------------------------------------------------------------------
(* Bounds of the model.                                                    *)

MaxStemLen == 6
MaxTitleLen == 2
MaxIdLen == 3
MaxDirs == 2
MaxArgs == 2

----------------------------------------------------------------------------
(* Option and text helpers.                                                *)

None == [tag |-> "None"]
Some(v) == [tag |-> "Some", val |-> v]
Pending == [tag |-> "Pending"]

NL == "\n"
Nen == "U+5E74"
BadByte == "0xFF"

BoundedSeq(S, n) == UNION {[1..k -> S] : k \in 0..n}

Min(S) == CHOOSE m \in S : \A o \in S : m <= o
Max(S) == CHOOSE m \in S : \A o \in S : o <= m

\* \s of the regex crate (Unicode White_Space): the blank and the line feed
\* stand for the class.
IsSpace(c) == c \in {" ", NL}

\* . of the regex crate: any character except the line feed.
IsDot(c) == c # NL

\* OsStr::to_str: the text, unless the bytes are not valid Unicode.
to_str(s) ==
  IF \E i \in 1..Len(s) : s[i] = BadByte THEN None ELSE Some(s)

\* Option<&str>::unwrap_or_default: the empty text for None.
unwrap_or_default(o) == IF o = None THEN <<>> ELSE o.val

----------------------------------------------------------------------------
(* extract_id: the regex (?<title>.+)\s+\[(?<id>[^\]]+)\]$ searched in the *)
(* stem.  IdEnds, SpaceEnds, TitleEnds and Starts are the positions at     *)
(* which each piece of the pattern can end (start) so that the rest of the *)
(* pattern still matches; the engine reports the leftmost start and, from  *)
(* it, the longest choice of each greedy repetition in turn.               *)

\* [^\]]+\]$ after a '[' at position b: the id ends at k.
IdEnds(stem, b) ==
  { k \in (b + 1)..Len(stem) :
      /\ \A j \in (b + 1)..k : stem[j] # "]"
      /\ k + 1 = Len(stem)
      /\ stem[k + 1] = "]" }

\* \s+\[ after a title ending at e: the whitespace ends at w.
SpaceEnds(stem, e) ==
  { w \in (e + 1)..Len(stem) :
      /\ \A j \in (e + 1)..w : IsSpace(stem[j])
      /\ w + 1 <= Len(stem)
      /\ stem[w + 1] = "["
      /\ IdEnds(stem, w + 1) # {} }

\* .+ from position s: the title ends at e.
TitleEnds(stem, s) ==
  { e \in s..Len(stem) :
      /\ \A j \in s..e : IsDot(stem[j])
      /\ SpaceEnds(stem, e) # {} }

\* The positions at which a match of the whole pattern starts.
Starts(stem) == { s \in 1..Len(stem) : TitleEnds(stem, s) # {} }

\* Mutant: a lazy title (.+?), the shortest title first.
TitleEndLazy(stem, s) == Min(TitleEnds(stem, s))

\* Greedy .+ : the longest title first.
TitleEnd(stem, s) == Max(TitleEnds(stem, s))

extract_id(stem) ==
  IF Starts(stem) = {} THEN None
  ELSE LET s == Min(Starts(stem))
           e == TitleEnd(stem, s)
           w == Max(SpaceEnds(stem, e))
           k == Max(IdEnds(stem, w + 1))
           title == SubSeq(stem, s, e)
           id == SubSeq(stem, w + 2, k)
       IN  Some(<<id, title>>)

----------------------------------------------------------------------------
(* std::path as the program uses it.                                       *)

Dot == <<".">>
DotDot == <<".", ".">>

\* Path::components: '/' at the front is RootDir; empty segments and "."
\* are dropped, except a leading "." (CurDir); ".." is ParentDir.
has_root(path) == Len(path) >= 2 /\ path[1] = <<>>

Component(path, i) ==
  IF i = 1 /\ has_root(path) THEN << [kind |-> "RootDir", os_str |-> <<"/">>] >>
  ELSE IF path[i] = <<>> THEN <<>>
  ELSE IF path[i] = Dot THEN
         IF i = 1 THEN << [kind |-> "CurDir", os_str |-> Dot] >> ELSE <<>>
  ELSE IF path[i] = DotDot THEN << [kind |-> "ParentDir", os_str |-> DotDot] >>
  ELSE << [kind |-> "Normal", os_str |-> path[i]] >>

RECURSIVE ComponentsUpTo(_, _)
ComponentsUpTo(path, n) ==
  IF n = 0 THEN <<>> ELSE ComponentsUpTo(path, n - 1) \o Component(path, n)

components(path) == ComponentsUpTo(path, Len(path))

\* Path::file_name: the last component, if it is a normal one.
file_name(path) ==
  LET cs == components(path)
  IN  IF cs # <<>> /\ cs[Len(cs)].kind = "Normal"
      THEN Some(cs[Len(cs)].os_str) ELSE None

\* std's rsplit_file_at_dot: <<before, after>> of the last '.'; a name with
\* no '.', or whose only '.' is its first character, has no extension.
rsplit_file_at_dot(file) ==
  LET dots == { i \in 1..Len(file) : file[i] = "." }
  IN  IF file = DotDot THEN <<Some(file), None>>
      ELSE IF dots = {} THEN <<None, Some(file)>>
      ELSE IF Max(dots) = 1 THEN <<Some(file), None>>
      ELSE << Some(SubSeq(file, 1, Max(dots) - 1)),
              Some(SubSeq(file, Max(dots) + 1, Len(file))) >>

\* Path::file_stem: before.or(after).
file_stem(path) ==
  IF file_name(path) = None THEN None
  ELSE LET ba == rsplit_file_at_dot(file_name(path).val)
       IN  IF ba[1] # None THEN ba[1] ELSE ba[2]

\* Path::extension: before.and(after).
extension(path) ==
  IF file_name(path) = None THEN None
  ELSE LET ba == rsplit_file_at_dot(file_name(path).val)
       IN  IF ba[1] # None THEN ba[2] ELSE None

----------------------------------------------------------------------------
(* MovieEntry::from_path.                                                  *)

extract_user_name(component) ==
  LET s == to_str(component.os_str)
  IN  IF s = None THEN None
      ELSE IF Len(s.val) >= 1 /\ s.val[1] = "@" THEN Some(s.val)
      ELSE None

\* Mutant: the skip(1) is missing, the file name is a candidate too.
RevNoSkip(cs) == [i \in 1..Len(cs) |-> cs[Len(cs) + 1 - i]]

\* components().rev().skip(1): the components from the last but one down to
\* the first.
RevSkip1(cs) ==
  IF Len(cs) <= 1 THEN <<>>
  ELSE [i \in 1..(Len(cs) - 1) |-> cs[Len(cs) - i]]

\* Iterator::find_map with extract_user_name: the first Some in the order
\* of iteration.
FindUser(cs) ==
  LET hits == { i \in 1..Len(cs) : extract_user_name(cs[i]) # None }
  IN  IF hits = {} THEN None ELSE extract_user_name(cs[Min(hits)])

\* Mutant: the owner lookup falls back to an empty user instead of failing.
from_path_unowned(path) ==
  LET stem == unwrap_or_default(to_str(unwrap_or_default(file_stem(path))))
      it == extract_id(stem)
      user == FindUser(RevSkip1(components(path)))
  IN  IF it = None THEN None
      ELSE Some([id |-> it.val[1], user |-> unwrap_or_default(user),
                 title |-> it.val[2]])

from_path(path) ==
  LET stem == unwrap_or_default(to_str(unwrap_or_default(file_stem(path))))
      it == extract_id(stem)
      user == FindUser(RevSkip1(components(path)))
  IN  IF it = None THEN None
      ELSE IF user = None THEN None
      ELSE Some([id |-> it.val[1], user |-> user.val, title |-> it.val[2]])

----------------------------------------------------------------------------
(* process: the per-file handler.                                          *)

mkv == <<"m", "k", "v">>
mp4 == <<"m", "p", "4">>
webm == <<"w", "e", "b", "m">>

EXTENSIONS == {mkv, mp4, webm}

\* serde_json::to_string of a MovieEntry: the three members in the order of
\* the struct's fields (escaping of the values is not modelled).
to_string(entry) ==
  << <<"id", entry.id>>, <<"user", entry.user>>, <<"title", entry.title>> >>

\* Mutant: the test of the allow-list is inverted.
IgnoredInverted(path) ==
  /\ extension(path) # None
  /\ unwrap_or_default(to_str(extension(path).val)) \in EXTENSIONS

\* Mutant: a missing extension is filtered like the empty one.
IgnoredNoExtension(path) ==
  unwrap_or_default(
    IF extension(path) = None THEN None ELSE to_str(extension(path).val))
    \notin EXTENSIONS

\* Whether process returns at the "ignored" branch.
Ignored(path) ==
  /\ extension(path) # None
  /\ unwrap_or_default(to_str(extension(path).val)) \notin EXTENSIONS

\* Mutant: the return after the "ignored" diagnostic is missing.
ProcessLinesFallThrough(path) ==
  (IF Ignored(path)
   THEN << [stream |-> "stderr", line |-> <<"ignored", path>>] >> ELSE <<>>)
  \o (IF from_path(path) # None
      THEN << [stream |-> "stdout", line |-> to_string(from_path(path).val)] >>
      ELSE << [stream |-> "stderr",
               line |-> <<"movie info extraction failed", path>>] >>)

\* The lines process writes for a path, in order.
ProcessLines(path) ==
  IF Ignored(path)
  THEN << [stream |-> "stderr", line |-> <<"ignored", path>>] >>
  ELSE IF from_path(path) # None
       THEN << [stream |-> "stdout", line |-> to_string(from_path(path).val)] >>
       ELSE << [stream |-> "stderr",
                line |-> <<"movie info extraction failed", path>>] >>

\* The calls of MovieEntry::from_path process makes for a path.
ProcessExtracts(path) == IF Ignored(path) THEN <<>> ELSE <<path>>

Tagged(lines, i, path) ==
  [k \in 1..Len(lines) |->
     [arg |-> i, path |-> path, stream |-> lines[k].stream,
      line |-> lines[k].line]]

\* process(entry) called for the argument at index i: entry.path() is path.
process(i, path) ==
  /\ calls' = Append(calls, [arg |-> i, path |-> path])
  /\ extracted' = extracted \o ProcessExtracts(path)
  /\ out' = out \o Tagged(ProcessLines(path), i, path)

----------------------------------------------------------------------------
(* The pure specifications: the input is drawn, the function applied.      *)

StemChars == {"a", " ", NL, "[", "]"}
TitleChars == StemChars \cup {Nen}
IdChars == StemChars \ {"]"}

Quiet ==
  /\ fs = <<>> /\ args = <<>> /\ argi = 1 /\ stack = <<>>
  /\ pending = "none" /\ results = <<>>
  /\ calls = <<>> /\ extracted = <<>> /\ out = <<>>

QuietWalk == UNCHANGED <<input, fs, args, argi, stack, pending, results>>

\* extract_id on any stem.
InitExtractId ==
  /\ input \in BoundedSeq(StemChars, MaxStemLen)
  /\ ret = Pending
  /\ Quiet

CallExtractId ==
  /\ ret = Pending
  /\ ret' = extract_id(input)
  /\ QuietWalk /\ UNCHANGED <<calls, extracted, out>>

SpecExtractId == InitExtractId /\ [][CallExtractId]_vars

\* extract_id on the stem "<title> [<id>]".
Titled(title, id) == title \o <<" ", "[">> \o id \o <<"]">>

InitTitled ==
  /\ input \in [title : BoundedSeq(TitleChars, MaxTitleLen) \ {<<>>},
                id : BoundedSeq(IdChars, MaxIdLen) \ {<<>>}]
  /\ ret = Pending
  /\ Quiet

CallTitled ==
  /\ ret = Pending
  /\ ret' = extract_id(Titled(input.title, input.id))
  /\ QuietWalk /\ UNCHANGED <<calls, extracted, out>>

SpecTitled == InitTitled /\ [][CallTitled]_vars

\* The paths of the pure specifications: up to MaxDirs directory segments
\* and a last segment made of a stem and a suffix.
AtU == <<"@", "u">>
DirNames ==
  { <<>>, Dot, DotDot, <<"@">>, AtU, <<"u">>, <<"u", "@">>, <<"@", BadByte>>,
    <<"a", " ", "[", "i", "]">> }

SampleStems ==
  { <<>>, <<".">>, <<"a">>,
    <<"a", " ", "[", "i", "]">>,
    <<"@", "a", " ", "[", "i", "]">>,
    <<"a", " ", "[", "]">>,
    <<"a", BadByte, " ", "[", "i", "]">> }

SampleSuffixes ==
  { <<>>, <<".">>, <<".">> \o mkv, <<".">> \o mp4, <<".">> \o webm,
    <<".", "t", "x", "t">>, <<".", "M", "K", "V">>, <<".", BadByte>>,
    <<".">> \o mkv \o <<"]">> }

SamplePaths ==
  { d \o <<s \o x>> :
      d \in BoundedSeq(DirNames, MaxDirs), s \in SampleStems,
      x \in SampleSuffixes }

\* MovieEntry::from_path on any path, as the unit test calls it.
InitFromPath ==
  /\ input \in SamplePaths
  /\ ret = Pending
  /\ Quiet

CallFromPath ==
  /\ ret = Pending
  /\ ret' = from_path(input)
  /\ QuietWalk /\ UNCHANGED <<calls, extracted, out>>

SpecFromPath == InitFromPath /\ [][CallFromPath]_vars

\* process on any path.
InitProcess ==
  /\ input \in SamplePaths
  /\ ret = Pending
  /\ Quiet

CallProcess ==
  /\ ret = Pending
  /\ ret' = None
  /\ process(argi, input)
  /\ QuietWalk

SpecProcess == InitProcess /\ [][CallProcess]_vars

----------------------------------------------------------------------------
(* The file system of the walk.  fs maps a path to its node: a directory   *)
(* has its entries in the order read_dir yields them and failAt, the       *)
(* number of entries read_dir yields before it reports an error (0: the    *)
(* read_dir call itself fails; Len(entries) + 1: no error).                *)

File == [kind |-> "file", entries |-> <<>>, failAt |-> 0]
Dir(entries, failAt) == [kind |-> "dir", entries |-> entries, failAt |-> failAt]

U == <<AtU>>
Sub == <<"d">>
D == <<AtU, Sub>>
E == << <<"e">> >>
Nope == << <<"n", "o", "p", "e">> >>

Movie == <<"a", " ", "[", "i", "]">> \o <<".">> \o mkv

\* The file of @u: printed, ignored, extraction failed.
WalkNames ==
  { Movie,
    <<"a", " ", "[", "i", "]">> \o <<".", "t", "x", "t">>,
    <<"a">> \o <<".">> \o mp4 }

\* The file of @u/d: printed without an extension, ignored.
SubNames ==
  { <<"a", " ", "[", "i", "]">>,
    <<"a", " ", "[", "i", "]">> \o <<".", "M", "K", "V">> }

\* @u holds one file and the directory d, in either order; d holds one file;
\* e, which has no '@' on its path, holds one file and is always readable.
Trees ==
  { (U :> Dir(IF fileFirst THEN <<a, Sub>> ELSE <<Sub, a>>, fu))
      @@ (D :> Dir(<<c>>, fd))
      @@ (E :> Dir(<<Movie>>, 2))
      @@ (U \o <<a>> :> File) @@ (D \o <<c>> :> File)
      @@ (E \o <<Movie>> :> File) :
      a \in WalkNames, c \in SubNames, fu \in 0..3, fd \in 0..2,
      fileFirst \in BOOLEAN }

\* What may be given on the command line: the three directories, a path
\* that does not exist, the regular file of @u.
Roots(tree) ==
  {U, D, E, Nope}
    \cup { p \in DOMAIN tree : tree[p].kind = "file" /\ Len(p) = 2 /\ p[1] = AtU }

\* Path::is_dir.
is_dir(path) == path \in DOMAIN fs /\ fs[path].kind = "dir"

\* Whether fs::read_dir(dir) returns Err.
read_dir_fails(dir) == fs[dir].failAt = 0

----------------------------------------------------------------------------
(* main and visit_dir.  A frame of stack is one activation of visit_dir    *)
(* inside its for loop: dir, and next, the index of the entry the iterator *)
(* yields next.  pending = "Err" says that the call made by the innermost  *)
(* frame (by main, when there is none) has returned Err.                   *)

Init ==
  /\ input = <<>>
  /\ ret = Pending
  /\ fs \in Trees
  /\ args \in BoundedSeq(Roots(fs), MaxArgs)
  /\ argi = 1
  /\ stack = <<>>
  /\ pending = "none"
  /\ results = <<>>
  /\ calls = <<>>
  /\ extracted = <<>>
  /\ out = <<>>

InMain == stack = <<>> /\ pending = "none" /\ argi <= Len(args)
InLoop == stack # <<>> /\ pending = "none"
Done == stack = <<>> /\ pending = "none" /\ argi > Len(args)

top == stack[1]
NextPath == top.dir \o <<fs[top.dir].entries[top.next]>>
AtEntry ==
  /\ InLoop
  /\ fs[top.dir].failAt # top.next - 1
  /\ top.next <= Len(fs[top.dir].entries)

Advance(frames) == <<[frames[1] EXCEPT !.next = @ + 1]>> \o Tail(frames)

\* Mutant: an argument that is a regular file is handed to the handler.
MainSkipCallsHandler ==
  /\ InMain
  /\ ~is_dir(args[argi])
  /\ IF args[argi] \in DOMAIN fs
     THEN process(argi, args[argi])
     ELSE UNCHANGED <<calls, extracted, out>>
  /\ results' = Append(results, "Ok")
  /\ argi' = argi + 1
  /\ UNCHANGED <<input, ret, fs, args, stack, pending>>

\* main calls visit_dir(arg): arg is no directory, visit_dir returns Ok(()).
MainSkip ==
  /\ InMain
  /\ ~is_dir(args[argi])
  /\ results' = Append(results, "Ok")
  /\ argi' = argi + 1
  /\ UNCHANGED <<input, ret, fs, args, stack, pending, calls, extracted, out>>

\* main calls visit_dir(arg): read_dir(arg)? returns Err.
MainReadFail ==
  /\ InMain
  /\ is_dir(args[argi])
  /\ read_dir_fails(args[argi])
  /\ pending' = "Err"
  /\ UNCHANGED <<input, ret, fs, args, argi, stack, results, calls,
                 extracted, out>>

\* main calls visit_dir(arg): the for loop over read_dir(arg) starts.
MainEnter ==
  /\ InMain
  /\ is_dir(args[argi])
  /\ ~read_dir_fails(args[argi])
  /\ stack' = <<[dir |-> args[argi], next |-> 1]>>
  /\ UNCHANGED <<input, ret, fs, args, argi, pending, results, calls,
                 extracted, out>>

\* let entry = entry?: the iterator yields Err; visit_dir returns it.
EntryErr ==
  /\ InLoop
  /\ fs[top.dir].failAt = top.next - 1
  /\ stack' = Tail(stack)
  /\ pending' = "Err"
  /\ UNCHANGED <<input, ret, fs, args, argi, results, calls, extracted, out>>

\* Mutant: a path the handler has already seen is not reported again.
VisitFileOnce ==
  /\ AtEntry
  /\ ~is_dir(NextPath)
  /\ IF \E k \in 1..Len(calls) : calls[k].path = NextPath
     THEN UNCHANGED <<calls, extracted, out>>
     ELSE process(argi, NextPath)
  /\ stack' = Advance(stack)
  /\ UNCHANGED <<input, ret, fs, args, argi, pending, results>>

\* The entry is no directory: cb(&entry).
VisitFile ==
  /\ AtEntry
  /\ ~is_dir(NextPath)
  /\ process(argi, NextPath)
  /\ stack' = Advance(stack)
  /\ UNCHANGED <<input, ret, fs, args, argi, pending, results>>

\* The entry is a directory: visit_dir(path, cb) starts its own loop.
EnterDir ==
  /\ AtEntry
  /\ is_dir(NextPath)
  /\ ~read_dir_fails(NextPath)
  /\ stack' = <<[dir |-> NextPath, next |-> 1]>> \o stack
  /\ UNCHANGED <<input, ret, fs, args, argi, pending, results, calls,
                 extracted, out>>

\* The entry is a directory: read_dir(path)? in visit_dir(path, cb) returns
\* Err.
SubdirReadFail ==
  /\ AtEntry
  /\ is_dir(NextPath)
  /\ read_dir_fails(NextPath)
  /\ pending' = "Err"
  /\ UNCHANGED <<input, ret, fs, args, argi, stack, results, calls,
                 extracted, out>>

\* Mutant: the `?` after the inner visit_dir is missing, the loop goes on.
PropagateSwallow ==
  /\ stack # <<>>
  /\ pending = "Err"
  /\ stack' = Advance(stack)
  /\ pending' = "none"
  /\ UNCHANGED <<input, ret, fs, args, argi, results, calls, extracted, out>>

\* visit_dir(path, cb)?: the Err of the inner call is returned by this
\* frame too.
Propagate ==
  /\ stack # <<>>
  /\ pending = "Err"
  /\ stack' = Tail(stack)
  /\ UNCHANGED <<input, ret, fs, args, argi, pending, results, calls,
                 extracted, out>>

\* The loop of an inner visit_dir ends: Ok(()), and the caller's loop goes
\* on.
ReturnOk ==
  /\ InLoop
  /\ Len(stack) > 1
  /\ fs[top.dir].failAt # top.next - 1
  /\ top.next > Len(fs[top.dir].entries)
  /\ stack' = Advance(Tail(stack))
  /\ UNCHANGED <<input, ret, fs, args, argi, pending, results, calls,
                 extracted, out>>

\* The loop of the outermost visit_dir ends: Ok(()) to main, which drops it.
MainOk ==
  /\ InLoop
  /\ Len(stack) = 1
  /\ fs[top.dir].failAt # top.next - 1
  /\ top.next > Len(fs[top.dir].entries)
  /\ stack' = <<>>
  /\ results' = Append(results, "Ok")
  /\ argi' = argi + 1
  /\ UNCHANGED <<input, ret, fs, args, pending, calls, extracted, out>>

\* let _ = visit_dir(arg, &process): main drops the Err and goes on.
MainDiscard ==
  /\ stack = <<>>
  /\ pending = "Err"
  /\ pending' = "none"
  /\ results' = Append(results, "Err")
  /\ argi' = argi + 1
  /\ UNCHANGED <<input, ret, fs, args, stack, calls, extracted, out>>

Next ==
  \/ MainSkip
  \/ MainReadFail
  \/ MainEnter
  \/ EntryErr
  \/ VisitFile
  \/ EnterDir
  \/ SubdirReadFail
  \/ Propagate
  \/ ReturnOk
  \/ MainOk
  \/ MainDiscard

Spec == Init /\ [][Next]_vars

----------------------------------------------------------------------------
(* What the claims speak of.                                               *)

IsPrefix(a, b) == Len(a) <= Len(b) /\ SubSeq(b, 1, Len(a)) = a
Contains(s, c) == \E i \in 1..Len(s) : s[i] = c
IsSuffix(a, b) == Len(a) <= Len(b) /\ SubSeq(b, Len(b) - Len(a) + 1, Len(b)) = a

\* The text of the path's stem, as from_path reads it.
StemText(path) ==
  unwrap_or_default(to_str(unwrap_or_default(file_stem(path))))

\* The stem has the shape title, whitespace, '[', id, ']': some non-empty
\* stretch without a line feed, then a non-empty stretch of whitespace, then
\* '[', a non-empty stretch without ']', and ']' as the last character.
MatchesPattern(stem) ==
  \E s \in 1..Len(stem), e \in 1..Len(stem), w \in 1..Len(stem) :
    /\ s <= e /\ e < w /\ w + 2 < Len(stem)
    /\ \A j \in s..e : stem[j] # NL
    /\ \A j \in (e + 1)..w : stem[j] \in {" ", NL}
    /\ stem[w + 1] = "["
    /\ \A j \in (w + 2)..(Len(stem) - 1) : stem[j] # "]"
    /\ stem[Len(stem)] = "]"

\* The component has a text, and the text begins with '@'.
BeginsWithAt(c) ==
  /\ to_str(c.os_str) # None
  /\ c.os_str # <<>>
  /\ c.os_str[1] = "@"

\* The components other than the final one that begin with '@'.
OwnerCandidates(cs) == { i \in 1..(Len(cs) - 1) : BeginsWithAt(cs[i]) }

\* visit_dir(dir, cb) read as a function of the file system: the files it
\* hands to cb from entry i of dir on, in order, and whether it returns Ok.
RECURSIVE ScanFrom(_, _)
ScanFrom(dir, i) ==
  IF fs[dir].failAt = i - 1 THEN [files |-> <<>>, ok |-> FALSE]
  ELSE IF i > Len(fs[dir].entries) THEN [files |-> <<>>, ok |-> TRUE]
  ELSE LET p == dir \o <<fs[dir].entries[i]>>
       IN  IF is_dir(p)
           THEN LET sub == ScanFrom(p, 1)
                    rest == ScanFrom(dir, i + 1)
                IN  IF ~sub.ok THEN sub
                    ELSE [files |-> sub.files \o rest.files, ok |-> rest.ok]
           ELSE LET rest == ScanFrom(dir, i + 1)
                IN  [files |-> <<p>> \o rest.files, ok |-> rest.ok]

\* One root scanned alone.
ScanAlone(root) ==
  IF is_dir(root) THEN ScanFrom(root, 1) ELSE [files |-> <<>>, ok |-> TRUE]

\* The lines the handler writes for the files, in order, for argument i.
RECURSIVE LinesOf(_, _)
LinesOf(i, files) ==
  IF files = <<>> THEN <<>>
  ELSE Tagged(ProcessLines(files[1]), i, files[1]) \o LinesOf(i, Tail(files))

\* The lines of the first n arguments, each scanned alone, one after the
\* other.
RECURSIVE ExpectedOut(_)
ExpectedOut(n) ==
  IF n = 0 THEN <<>>
  ELSE ExpectedOut(n - 1) \o LinesOf(n, ScanAlone(args[n]).files)

\* The paths the handler was invoked with during argument i.
CallsOf(i) ==
  LET mine == SelectSeq(calls, LAMBDA c : c.arg = i)
  IN  [k \in 1..Len(mine) |-> mine[k].path]

\* The regular files located under a root directory.
FilesUnder(root) ==
  { p \in DOMAIN fs :
      /\ fs[p].kind = "file"
      /\ Len(p) > Len(root)
      /\ SubSeq(p, 1, Len(root)) = root }

\* How many lines were written for a file: in all, and during argument i.
LinesOfFile(p) == Cardinality({ k \in 1..Len(out) : out[k].path = p })
LinesFor(i, p) ==
  Cardinality({ k \in 1..Len(out) : out[k].arg = i /\ out[k].path = p })

----------------------------------------------------------------------------
(* The claims.                                                             *)

\* C1: when from_path returns a record, its user is, verbatim, the deepest
\* component before the final one whose text begins with '@': the nearest
\* of several such ancestors wins and the file name is never the owner.
C1_NearestOwner ==
  ret.tag = "Some" =>
    LET cs == components(input)
    IN  /\ OwnerCandidates(cs) # {}
        /\ ret.val.user = cs[Max(OwnerCandidates(cs))].os_str

\* C1 witness: a record was returned for a path with two different '@'
\* ancestors and a file name that begins with '@' as well.
C1_Witness ==
  /\ ret.tag = "Some"
  /\ LET cs == components(input)
     IN  /\ Cardinality({ cs[i].os_str : i \in OwnerCandidates(cs) }) = 2
         /\ BeginsWithAt(cs[Len(cs)])

\* C2 as stated: for every non-empty title and every non-empty id without
\* ']', extract_id on "<title> [<id>]" returns exactly that title and id.
C2_AnyTitleAnyId ==
  ret # Pending => ret = Some(<<input.id, input.title>>)

\* C2 as amended: the same, for a title without a line feed and an id in
\* which no whitespace character is immediately followed by '['.
C2_TitledRoundTrip ==
  ( /\ ret # Pending
    /\ ~Contains(input.title, NL)
    /\ \A i \in 1..(Len(input.id) - 1) :
         ~(IsSpace(input.id[i]) /\ input.id[i + 1] = "[") )
  => ret = Some(<<input.id, input.title>>)

\* C2 witness: title and id came back unchanged, the title holding a
\* multi-byte character and a ']', the id holding '[' and whitespace.
C2_Witness ==
  /\ ret = Some(<<input.id, input.title>>)
  /\ Contains(input.title, Nen) /\ Contains(input.title, "]")
  /\ Contains(input.id, "[") /\ Contains(input.id, " ")

\* C3: from_path returns a record if and only if the stem matches the
\* pattern and some component before the final one begins with '@'; a
\* record never has an empty field.
C3_RecordIffBoth ==
  ret # Pending =>
    /\ (ret # None) <=>
         ( /\ MatchesPattern(StemText(input))
           /\ OwnerCandidates(components(input)) # {} )
    /\ ret # None =>
         ret.val.id # <<>> /\ ret.val.user # <<>> /\ ret.val.title # <<>>

\* C3 witness: nothing was returned for a path whose file name matches the
\* pattern and begins with '@', but which has no '@' ancestor.
C3_Witness ==
  /\ ret = None
  /\ MatchesPattern(StemText(input))
  /\ OwnerCandidates(components(input)) = {}
  /\ BeginsWithAt(components(input)[Len(components(input))])

\* C4 as stated: once the scan is over, every regular file under a root
\* directory has exactly one line, whatever the directory reads did.
C4_EveryFileOneLine ==
  Done =>
    \A i \in 1..Len(args) :
      is_dir(args[i]) => \A p \in FilesUnder(args[i]) : LinesOfFile(p) = 1

\* C4 as amended: once the scan is over, for each root argument whose
\* traversal returned Ok every regular file under it has exactly one line
\* written during that argument's traversal; for a root whose traversal was
\* cut short by a read error, at most one.
C4_OneLinePerVisit ==
  Done =>
    \A i \in 1..Len(args) :
      is_dir(args[i]) =>
        \A p \in FilesUnder(args[i]) :
          IF results[i] = "Ok" THEN LinesFor(i, p) = 1 ELSE LinesFor(i, p) <= 1

\* C4 witness: a finished scan with a root that returned Ok and whose two
\* files went one to standard output, the other to standard error.
C4_Witness ==
  /\ Done
  /\ \E i \in 1..Len(args) :
       /\ results[i] = "Ok"
       /\ Cardinality(FilesUnder(args[i])) = 2
       /\ \E k \in 1..Len(out) : out[k].arg = i /\ out[k].stream = "stdout"
       /\ \E k \in 1..Len(out) : out[k].arg = i /\ out[k].stream = "stderr"

\* C5: for a path whose extension is present and is not mkv, mp4 or webm,
\* process writes the "ignored" diagnostic and nothing else, and does not
\* call from_path.
C5_DisallowedExtensionIgnored ==
  ( /\ ret # Pending
    /\ extension(input) # None
    /\ to_str(extension(input).val) \notin {Some(mkv), Some(mp4), Some(webm)} )
  => /\ extracted = <<>>
     /\ Len(out) = 1
     /\ out[1].stream = "stderr"
     /\ out[1].line = <<"ignored", input>>

\* C5 witness: an ignored path from which from_path would make a record.
C5_Witness ==
  /\ ret # Pending
  /\ extension(input) # None
  /\ to_str(extension(input).val) \notin {Some(mkv), Some(mp4), Some(webm)}
  /\ from_path(input) # None
  /\ Len(out) = 1 /\ out[1].line[1] = "ignored"

\* C6: after a directory read has failed no further entry is handed to the
\* handler and nothing is written until main has dropped the Err and moved
\* to the next argument; at the end every argument has been traversed as
\* far as its own reads allow; an Err never leaves the program unable to
\* go on, nor main unable to take up the next argument.
C6_ReadErrorEndsRootOnly ==
  /\ [][ pending = "Err" =>
           /\ calls' = calls /\ out' = out
           /\ argi' = argi => pending' = "Err" /\ Len(stack') < Len(stack)
           /\ argi' # argi =>
                /\ argi' = argi + 1 /\ pending' = "none" /\ stack' = <<>>
                /\ results' = Append(results, "Err") ]_vars
  /\ [](Done =>
          /\ Len(results) = Len(args)
          /\ \A i \in 1..Len(args) :
               /\ CallsOf(i) = ScanAlone(args[i]).files
               /\ results[i] = "Err" <=> ~ScanAlone(args[i]).ok)
  /\ [](pending = "Err" => ENABLED (Propagate \/ MainDiscard))
  /\ [](InMain => ENABLED (MainSkip \/ MainReadFail \/ MainEnter))

\* C6 witness: a finished scan in which the first root met a read error
\* below its top directory and left a file unvisited, and the second root
\* was traversed and had a file handled.
C6_Witness ==
  /\ Done
  /\ Len(args) = 2
  /\ results = <<"Err", "Ok">>
  /\ fs[args[1]].failAt > Len(fs[args[1]].entries)
  /\ \E p \in FilesUnder(args[1]) : LinesFor(1, p) = 0
  /\ CallsOf(2) # <<>>
  /\ CallsOf(2) = ScanAlone(args[2]).files

\* C7: a root that does not exist or is no directory causes no handler
\* invocation, no line and no error, and the directories among the other
\* roots are traversed all the same.
C7_NonDirectoryRootSilent ==
  /\ \A i \in 1..Len(args) :
       ~is_dir(args[i]) =>
         /\ \A k \in 1..Len(calls) : calls[k].arg # i
         /\ \A k \in 1..Len(out) : out[k].arg # i
         /\ i < argi => results[i] = "Ok"
  /\ Done =>
       \A j \in 1..Len(args) :
         is_dir(args[j]) => CallsOf(j) = ScanAlone(args[j]).files

\* C7 witness: a finished scan whose first root is a regular file from
\* which process would print a record, and whose second root is a directory
\* with a handled file.
C7_Witness ==
  /\ Done
  /\ Len(args) = 2
  /\ args[1] \in DOMAIN fs /\ fs[args[1]].kind = "file"
  /\ ProcessLines(args[1])[1].stream = "stdout"
  /\ is_dir(args[2]) /\ CallsOf(2) # <<>>
  /\ CallsOf(1) = <<>>

\* C8 as stated: in a match the title holds no character of the whitespace
\* run in front of the id's '[': the title is the stem text before the run.
C8_WholeRunStripped ==
  ret.tag = "Some" =>
    LET title == ret.val[2]
        bracket == Len(input) - Len(ret.val[1]) - 1
        run == { r \in 1..(bracket - 1) :
                   \A j \in r..(bracket - 1) : IsSpace(input[j]) }
    IN  /\ run # {}
        /\ title # <<>>
        /\ IsSuffix(title, SubSeq(input, 1, Min(run) - 1))

\* C9: for a path without extension process never writes "ignored" and
\* calls from_path once: a record is printed on standard output, no record
\* gives the "extraction failed" diagnostic.
C9_NoExtensionExtracted ==
  (ret # Pending /\ extension(input) = None) =>
    /\ extracted = <<input>>
    /\ Len(out) = 1
    /\ out[1].line[1] # "ignored"
    /\ from_path(input) # None =>
         out[1].stream = "stdout" /\ out[1].line = to_string(from_path(input).val)
    /\ from_path(input) = None =>
         /\ out[1].stream = "stderr"
         /\ out[1].line = <<"movie info extraction failed", input>>

\* C9 witness: a path without extension whose record was printed.
C9_Witness ==
  /\ ret # Pending
  /\ extension(input) = None
  /\ Len(out) = 1 /\ out[1].stream = "stdout"

\* C10: the lines written are, in argument order, those each root gives
\* when scanned alone; a root given twice, or lying inside another root,
\* is reported once per occurrence.
C10_RootsInOrder ==
  LET expected == ExpectedOut(Len(args))
  IN  /\ IsPrefix(out, expected)
      /\ Done => out = expected

\* C10 witness: a finished scan in which one file has a line from each of
\* two arguments.
C10_Witness ==
  /\ Done
  /\ \E k \in 1..Len(out), l \in 1..Len(out) :
       out[k].path = out[l].path /\ out[k].arg = 1 /\ out[l].arg = 2

====
